---- MODULE Spec2Model ----
(***************************************************************************)
(* Session and credential lifecycle of the wake-on-lan-web backend:        *)
(* backend/src/auth.rs (access tokens, the authorization gate) and         *)
(* backend/src/api/users.rs (login, refresh, logout, account endpoints).   *)
(*                                                                         *)
(* Every request handler is an async task; it can be suspended at each     *)
(* database statement, so a handler is one action per statement.  Pure     *)
(* code between two statements (password verification, hashing, token     *)
(* signing) belongs to the action of the statement that follows it.        *)
(* A request's inputs are drawn at the step that first reads them.         *)
(***************************************************************************)
EXTENDS Integers, FiniteSets, Sequences, TLC

VARIABLES
    users,           \* table users: id -> row
    refresh_tokens,  \* table refresh_tokens: set of rows
    now,             \* wall clock (seconds)
    issued,          \* access tokens handed to clients so far
    nextTok,         \* next value of generate_refresh_token()
    nextUid,         \* next rowid of table users
    procs,           \* request tasks in flight: slot -> record
    resp,            \* the response sent by the latest step (NoResponse if none)
    nreq,            \* requests received so far
    nticks,          \* clock advances so far
    minted,          \* history: (redeemed refresh token, refresh token issued for it)
    failedSince,     \* history: id -> failed password checks since last success/reset
    revoked          \* history: the refresh tokens presented to logout, in order

vars == <<users, refresh_tokens, now, issued, nextTok, nextUid, procs, resp,
          nreq, nticks, minted, failedSince, revoked>>

----------------------------------------------------------------------------
(* Bounds of the model *)

MaxRequests == 2
MaxTicks == 1
MaxUsers == 3

(* Program constants (seconds) *)

AccessTtl == 900
RefreshShort == 86400
RefreshLong == 2592000
Leeway == 60

Procs == {1, 2}
Salts == {1}
Passwords == {"pw1", "pw2"}
\* what the random password generator may return
GeneratedPasswords == {"pw2"}
NoPassword == "none"
UsernameInputs == {"Alice", "bob"}
RoleInputs == {"admin", "user", "root"}
PathIds == {1, 2, 3}
TickSteps == {AccessTtl, RefreshLong}
NoTime == -1
JwtSecret == "secret"

----------------------------------------------------------------------------
(* Pure functions *)

\* faulty variant: the name is stored as given
to_lowercase_AsGiven(s) == s

\* String::to_lowercase on the usernames of the model
to_lowercase(s) ==
    CASE s = "Alice" -> "alice"
      [] s = "Bob" -> "bob"
      [] s = "Admin" -> "admin"
      [] OTHER -> s

\* argon2 with the given salt: a one-way tagging of (salt, password)
Argon2(password, salt) == [alg |-> "argon2id", salt |-> salt, pw |-> password]

\* faulty variant: the digest is not one of the given password
hash_password_Blank(password, salt) == Argon2(NoPassword, salt)

\* hash_password: fresh random salt, self-describing digest
hash_password(password, salt) == Argon2(password, salt)

\* verify_password: recompute with the digest's own salt and compare
verify_password(password, password_hash) ==
    Argon2(password, password_hash.salt) = password_hash

\* create_jwt: claims signed with the process-wide secret
create_jwt(uid, username, role, duration, t) ==
    [sub |-> username, uid |-> uid, role |-> role, exp |-> t + duration,
     mac |-> JwtSecret]

\* jsonwebtoken::decode with Validation::default(): signature, then exp with leeway
decode_ok(token, t) ==
    /\ token.mac = JwtSecret
    /\ ~(token.exp < t - Leeway)

----------------------------------------------------------------------------
(* Tables *)

\* the row the schema's column defaults give an INSERT INTO users
NewUserRow(username, password_hash, role, force) ==
    [username |-> username, password_hash |-> password_hash, role |-> role,
     failed_login_attempts |-> 0, last_login_at |-> NoTime,
     force_password_change |-> force, is_disabled |-> FALSE]

\* users.username is UNIQUE: an INSERT of a name some row already has is refused
UniqueViolation(table, username) == \E i \in DOMAIN table : table[i].username = username

\* SELECT ... FROM users WHERE username = ?  (ids of the matching rows)
UsersByName(username) == {id \in DOMAIN users : users[id].username = username}

\* SELECT ... FROM users WHERE id = ?
UsersById(id) == {i \in DOMAIN users : i = id}

\* SELECT ... FROM refresh_tokens WHERE token_hash = ?
TokensByHash(token) == {r \in refresh_tokens : r.token_hash = token}

\* faulty variant: the redeemed token is left in the ledger
DeleteToken_Keeps(table, token) == table

\* faulty variant: the delete is not restricted to the presented token
DeleteToken_WholeLedger(table, token) == {}

\* faulty variant: every row of the token's owner is deleted with it
DeleteToken_OwnersRows(table, token) ==
    {r \in table : \A q \in table : q.token_hash = token => r.user_id # q.user_id}

\* DELETE FROM refresh_tokens WHERE token_hash = ?
DeleteToken(table, token) == {r \in table : r.token_hash # token}

\* refresh_tokens.user_id REFERENCES users(id): the INSERT is refused for a missing user
InsertToken(table, row, userIds) ==
    IF row.user_id \in userIds THEN table \cup {row} ELSE table

\* faulty variant: the rows of a deleted user stay behind
CascadeDelete_None(table, id) == table

\* ... ON DELETE CASCADE: the rows of a deleted user go with it
CascadeDelete(table, id) == {r \in table : r.user_id # id}

\* faulty variant: the whole row is sent
UserResponse_WholeRow(id, row) == [id |-> id] @@ row

\* faulty variant: the projection reports the current time as last_login_at
UserResponse_StampsNow(id, row) ==
    [id |-> id, username |-> row.username, role |-> row.role,
     last_login_at |-> now,
     force_password_change |-> row.force_password_change,
     is_disabled |-> row.is_disabled]

\* UserResponse: the projection of a users row sent to clients
UserResponse(id, row) ==
    [id |-> id, username |-> row.username, role |-> row.role,
     last_login_at |-> row.last_login_at,
     force_password_change |-> row.force_password_change,
     is_disabled |-> row.is_disabled]

----------------------------------------------------------------------------
(* The authorization gate *)

\* an Authorization header as the set of bearer tokens it carries (none or one)
ForgedToken ==
    [sub |-> "admin", uid |-> 1, role |-> "admin",
     exp |-> RefreshLong * (MaxTicks + 2), mac |-> "forged"]

Bearers == {{}} \cup {{t} : t \in issued \cup {ForgedToken}}

\* faulty variant: the gate forgets the live is_disabled check
GateRowCheck_NoDisabledCheck(rows) ==
    IF rows = {} THEN "InvalidToken" ELSE "Granted"

\* faulty variant: a token whose account is gone is answered like a disabled account
GateRowCheck_DeletedAsDisabled(rows) ==
    IF rows = {} \/ \E i \in rows : users[i].is_disabled THEN "AccountDisabled"
    ELSE "Granted"

\* faulty variant: an account with no refresh token left is answered like a deleted one
GateRowCheck_NeedsSession(rows) ==
    IF rows = {} \/ \A i \in rows : \A r \in refresh_tokens : r.user_id # i
    THEN "InvalidToken"
    ELSE IF \E i \in rows : users[i].is_disabled THEN "AccountDisabled"
    ELSE "Granted"

\* the gate's match on the looked-up row (auth.rs 93-101)
GateRowCheck(rows) ==
    IF rows = {} THEN "InvalidToken"
    ELSE IF \E i \in rows : users[i].is_disabled THEN "AccountDisabled"
    ELSE "Granted"

\* faulty variant: the users lookup runs before the token is validated
AuthUser_from_request_parts_LookupFirst(bearer, dbOk) ==
    IF bearer = {} THEN "MissingCredentials"
    ELSE LET token == CHOOSE t \in bearer : TRUE IN
         IF ~dbOk THEN "DatabaseError"
         ELSE IF UsersById(token.uid) # {} /\ users[token.uid].is_disabled
              THEN "AccountDisabled"
         ELSE IF ~decode_ok(token, now) \/ UsersById(token.uid) = {}
              THEN "InvalidToken"
         ELSE "Granted"

\* AuthUser::from_request_parts: the first failing check decides
AuthUser_from_request_parts(bearer, dbOk) ==
    IF bearer = {} THEN "MissingCredentials"
    ELSE LET token == CHOOSE t \in bearer : TRUE IN
         IF ~decode_ok(token, now) THEN "InvalidToken"
         ELSE IF ~dbOk THEN "DatabaseError"
         ELSE GateRowCheck(UsersById(token.uid))

\* faulty variant: the admin extractor accepts every role
IsAdminRole_Any(role) == TRUE

\* the role test of the admin extractor (auth.rs 115)
IsAdminRole(role) == role = "admin"

\* faulty variant: the admin extractor tests the role of the users row
AdminUser_from_request_parts_LiveRole(bearer, dbOk) ==
    LET base == AuthUser_from_request_parts(bearer, dbOk) IN
    IF base # "Granted" THEN base
    ELSE IF IsAdminRole(users[(CHOOSE t \in bearer : TRUE).uid].role) THEN "Granted"
    ELSE "Forbidden"

\* AdminUser::from_request_parts: the base gate, then role == "admin"
AdminUser_from_request_parts(bearer, dbOk) ==
    LET base == AuthUser_from_request_parts(bearer, dbOk) IN
    IF base # "Granted" THEN base
    ELSE IF IsAdminRole((CHOOSE t \in bearer : TRUE).role) THEN "Granted"
    ELSE "Forbidden"

\* the AuthUser a granted request carries: taken from the claims
AuthUserOf(bearer) ==
    LET token == CHOOSE t \in bearer : TRUE IN
    [id |-> token.uid, username |-> token.sub, role |-> token.role]

\* AuthError::into_response
AuthErrorStatus(e) ==
    CASE e = "MissingCredentials" -> 401
      [] e = "InvalidToken" -> 401
      [] e = "Forbidden" -> 403
      [] e = "AccountDisabled" -> 403
      [] e = "DatabaseError" -> 500

AuthErrorMessage(e) ==
    CASE e = "MissingCredentials" -> "Missing credentials"
      [] e = "InvalidToken" -> "Invalid token"
      [] e = "Forbidden" -> "Access denied"
      [] e = "AccountDisabled" -> "Account disabled"
      [] e = "DatabaseError" -> "Database error"


----------------------------------------------------------------------------
(* Requests and responses *)

Idle == [pc |-> "idle"]

Response(rid, kind, status, error, arg, out) ==
    [rid |-> rid, kind |-> kind, status |-> status, error |-> error,
     arg |-> arg, out |-> out]

NoArg == [none |-> TRUE]

NoResponse == Response(0, "none", 0, "", NoArg, NoArg)

\* p is the first free slot and the request budget of the model is not used up
CanStart(p) ==
    /\ procs[p].pc = "idle"
    /\ \A q \in Procs : q < p => procs[q].pc # "idle"
    /\ nreq < MaxRequests

\* the request in slot p ends with this response
Reply(p, r) == /\ procs' = [procs EXCEPT ![p] = Idle]
               /\ resp' = r

----------------------------------------------------------------------------
(* Initial state: the database after the bootstrap of admin (main.rs 83-106)
   and the creation of alice, each of them logged in once at time 0 with
   remember_me unset. *)

Init ==
    /\ users = (1 :> [NewUserRow("admin", hash_password("pw1", 1), "admin", TRUE)
                        EXCEPT !.last_login_at = 0])
            @@ (2 :> [NewUserRow("alice", hash_password("pw1", 1), "user", TRUE)
                        EXCEPT !.last_login_at = 0])
    /\ refresh_tokens = {[token_hash |-> 1, user_id |-> 1, expires_at |-> RefreshShort],
                         [token_hash |-> 2, user_id |-> 2, expires_at |-> RefreshShort]}
    /\ now = 0
    /\ issued = {create_jwt(1, "admin", "admin", AccessTtl, 0),
                 create_jwt(2, "alice", "user", AccessTtl, 0)}
    /\ nextTok = 3
    /\ nextUid = 3
    /\ procs = [p \in Procs |-> Idle]
    /\ resp = NoResponse
    /\ nreq = 0
    /\ nticks = 0
    /\ minted = {}
    /\ failedSince = (1 :> 0) @@ (2 :> 0)
    /\ revoked = <<>>

\* time passes
Tick ==
    /\ nticks < MaxTicks
    /\ \E d \in TickSteps : now' = now + d
    /\ nticks' = nticks + 1
    /\ resp' = NoResponse
    /\ UNCHANGED <<revoked, users, refresh_tokens, issued, nextTok, nextUid, procs,
                   nreq, minted, failedSince>>

----------------------------------------------------------------------------
(* POST /api/login *)

RememberInputs == {{}, {TRUE}, {FALSE}}

\* faulty variant: the disabled flag is not looked at
login_rejects_nobody(row) == FALSE

\* faulty variant: a pending forced password change is refused like a disabled account
login_rejects_forced(row) == row.is_disabled \/ row.force_password_change

\* faulty variant: an account with a failed attempt on record is locked out
login_rejects_locked(row) == row.is_disabled \/ row.failed_login_attempts >= 1

\* users.rs 230: a disabled account is turned away before the password is looked at
login_rejects_disabled(row) == row.is_disabled

\* faulty variant: the counter is written back unchanged
IncrementAttempts_Stuck(n) == n

\* faulty variant: an increment on top of an earlier one is lost
IncrementAttempts_Saturating(n) == IF n >= 1 THEN n ELSE n + 1

\* users.rs 247: failed_login_attempts = failed_login_attempts + 1
IncrementAttempts(n) == n + 1

\* UPDATE users SET failed_login_attempts = failed_login_attempts + 1 WHERE id = ?
UpdateLoginFailed(table, id) ==
    IF id \in DOMAIN table
    THEN [table EXCEPT ![id].failed_login_attempts = IncrementAttempts(@)]
    ELSE table

\* UPDATE users SET failed_login_attempts = 0, last_login_at = CURRENT_TIMESTAMP WHERE id = ?
UpdateLoginSucceeded(table, id, t) ==
    IF id \in DOMAIN table
    THEN [table EXCEPT ![id].failed_login_attempts = 0, ![id].last_login_at = t]
    ELSE table

\* users.rs 273-277: remember_me.unwrap_or(false) picks 30 days or 1 day
LoginRefreshDuration(remember_me) ==
    IF TRUE \in remember_me THEN RefreshLong ELSE RefreshShort

\* users.rs 213-236: fetch the row by lowercased name
login_fetch(p) ==
    /\ CanStart(p)
    /\ \E name \in UsernameInputs :
         LET found == UsersByName(to_lowercase(name))
             arg == [username |-> name]
         IN  IF found = {}
             THEN Reply(p, Response(nreq + 1, "login", 401, "Invalid credentials", arg, NoArg))
             ELSE LET id == CHOOSE i \in found : TRUE IN
                  IF login_rejects_disabled(users[id])
                  THEN Reply(p, Response(nreq + 1, "login", 403, "Account disabled", arg, NoArg))
                  ELSE /\ procs' = [procs EXCEPT ![p] =
                                      [pc |-> "login_verify", kind |-> "login",
                                       rid |-> nreq + 1, arg |-> arg,
                                       id |-> id, user |-> users[id]]]
                       /\ resp' = NoResponse
    /\ nreq' = nreq + 1
    /\ UNCHANGED <<revoked, users, refresh_tokens, now, issued, nextTok, nextUid, nticks,
                   minted, failedSince>>

\* users.rs 244-262: verify the password, then the counter UPDATE of either branch
login_verify(p) ==
    /\ procs[p].pc = "login_verify"
    /\ \E password \in Passwords :
         LET r == procs[p]
             arg == [username |-> r.arg.username, password |-> password]
         IN  IF ~verify_password(password, r.user.password_hash)
             THEN /\ users' = UpdateLoginFailed(users, r.id)
                  /\ failedSince' = [i \in DOMAIN failedSince |->
                                       IF i = r.id THEN failedSince[i] + 1
                                       ELSE failedSince[i]]
                  /\ Reply(p, Response(r.rid, "login", 401, "Invalid credentials", arg, NoArg))
             ELSE /\ users' = UpdateLoginSucceeded(users, r.id, now)
                  /\ failedSince' = [i \in DOMAIN failedSince |->
                                       IF i = r.id THEN 0 ELSE failedSince[i]]
                  /\ procs' = [procs EXCEPT ![p].pc = "login_tokens", ![p].arg = arg]
                  /\ resp' = NoResponse
    /\ UNCHANGED <<revoked, refresh_tokens, now, issued, nextTok, nextUid, nreq, nticks, minted>>

\* users.rs 264-306: mint the pair, store the refresh token, answer 200
login_tokens(p) ==
    /\ procs[p].pc = "login_tokens"
    /\ \E remember_me \in RememberInputs :
         LET r == procs[p]
             access_token == create_jwt(r.id, r.user.username, r.user.role, AccessTtl, now)
             row == [token_hash |-> nextTok, user_id |-> r.id,
                     expires_at |-> now + LoginRefreshDuration(remember_me)]
         IN  /\ refresh_tokens' = InsertToken(refresh_tokens, row, DOMAIN users)
             /\ issued' = issued \cup {access_token}
             /\ Reply(p, Response(r.rid, "login", 200, "",
                        [username |-> r.arg.username, password |-> r.arg.password,
                         remember_me |-> remember_me],
                        [user |-> UserResponse(r.id, r.user),
                         access_token |-> access_token,
                         refresh_token |-> nextTok]))
    /\ nextTok' = nextTok + 1
    /\ UNCHANGED <<revoked, users, now, nextUid, nreq, nticks, minted, failedSince>>

----------------------------------------------------------------------------
(* POST /api/refresh *)

\* the refresh tokens a client may present: every value handed out so far, and one never issued
TokenInputs == 0..(nextTok - 1)

\* faulty variant: the expiry of a refresh token is not looked at
RefreshExpired_Never(expires_at, t) == FALSE

\* users.rs 628: expires_at < now
RefreshExpired(expires_at, t) == expires_at < t

\* faulty variant: a rotated token gets the one-day lifetime
SlidingExpiry_OneDay(t) == t + RefreshShort

\* users.rs 669: new_expires_at = now + 30 days, whatever the redeemed token's lifetime
SlidingExpiry(t) == t + RefreshLong

\* users.rs 610-634: look the token up and compare its expiry with the clock
refresh_lookup(p) ==
    /\ CanStart(p)
    /\ \E token \in TokenInputs :
         LET found == TokensByHash(token)
             arg == [refresh_token |-> token]
         IN  IF found = {}
             THEN Reply(p, Response(nreq + 1, "refresh", 401, "Invalid refresh token", arg, NoArg))
             ELSE LET token_record == CHOOSE t \in found : TRUE IN
                  /\ procs' = [procs EXCEPT ![p] =
                                 [pc |-> IF RefreshExpired(token_record.expires_at, now)
                                         THEN "refresh_expired" ELSE "refresh_user",
                                  kind |-> "refresh", rid |-> nreq + 1, arg |-> arg,
                                  token_record |-> token_record, now |-> now]]
                  /\ resp' = NoResponse
    /\ nreq' = nreq + 1
    /\ UNCHANGED <<revoked, users, refresh_tokens, now, issued, nextTok, nextUid, nticks,
                   minted, failedSince>>

\* users.rs 629-633: an expired token is deleted and the request refused
refresh_expired(p) ==
    /\ procs[p].pc = "refresh_expired"
    /\ refresh_tokens' = DeleteToken(refresh_tokens, procs[p].arg.refresh_token)
    /\ Reply(p, Response(procs[p].rid, "refresh", 401, "Refresh token expired",
                         procs[p].arg, NoArg))
    /\ UNCHANGED <<revoked, users, now, issued, nextTok, nextUid, nreq, nticks, minted, failedSince>>

\* faulty variant: the owner is fetched only if the account is enabled
RefreshOwner_EnabledOnly(id) == {i \in UsersById(id) : ~users[i].is_disabled}

\* SELECT username, role FROM users WHERE id = ? (users.rs 637-641)
RefreshOwner(id) == UsersById(id)

\* faulty variant: the role is the one of an access token issued to the user earlier
RefreshClaims_FromEarlierToken(id) ==
    [username |-> users[id].username,
     role |-> IF \E t \in issued : t.uid = id
              THEN (CHOOSE t \in issued : t.uid = id).role
              ELSE users[id].role]

\* the columns the fetch returns: username and role of the row as it is now
RefreshClaims(id) == [username |-> users[id].username, role |-> users[id].role]

\* users.rs 636-648: fetch the owner's username and role
refresh_user(p) ==
    /\ procs[p].pc = "refresh_user"
    /\ LET r == procs[p]
           found == RefreshOwner(r.token_record.user_id)
       IN  IF found = {}
           THEN Reply(p, Response(r.rid, "refresh", 401, "User not found", r.arg, NoArg))
           ELSE /\ procs' = [procs EXCEPT ![p] =
                               [pc |-> "refresh_delete", kind |-> "refresh", rid |-> r.rid,
                                arg |-> r.arg, token_record |-> r.token_record,
                                now |-> r.now,
                                user |-> RefreshClaims(r.token_record.user_id)]]
                /\ resp' = NoResponse
    /\ UNCHANGED <<revoked, users, refresh_tokens, now, issued, nextTok, nextUid, nreq, nticks,
                   minted, failedSince>>

\* users.rs 650-654: delete the presented token; the statement's result is dropped
refresh_delete(p) ==
    /\ procs[p].pc = "refresh_delete"
    /\ refresh_tokens' = DeleteToken(refresh_tokens, procs[p].arg.refresh_token)
    /\ procs' = [procs EXCEPT ![p].pc = "refresh_insert"]
    /\ resp' = NoResponse
    /\ UNCHANGED <<revoked, users, now, issued, nextTok, nextUid, nreq, nticks, minted,
                   failedSince>>

\* users.rs 656-684: mint the new pair, store the new refresh token, answer 200
refresh_insert(p) ==
    /\ procs[p].pc = "refresh_insert"
    /\ LET r == procs[p]
           access_token == create_jwt(r.token_record.user_id, r.user.username,
                                      r.user.role, AccessTtl, now)
           row == [token_hash |-> nextTok, user_id |-> r.token_record.user_id,
                   expires_at |-> SlidingExpiry(r.now)]
       IN  /\ refresh_tokens' = InsertToken(refresh_tokens, row, DOMAIN users)
           /\ issued' = issued \cup {access_token}
           /\ minted' = minted \cup {[from |-> r.arg.refresh_token, token |-> nextTok]}
           /\ Reply(p, Response(r.rid, "refresh", 200, "", r.arg,
                      [access_token |-> access_token, refresh_token |-> nextTok]))
    /\ nextTok' = nextTok + 1
    /\ UNCHANGED <<revoked, users, now, nextUid, nreq, nticks, failedSince>>

----------------------------------------------------------------------------
(* POST /api/logout *)

\* users.rs 696-705: unconditional delete, always 200
logout_user(p) ==
    /\ CanStart(p)
    /\ \E token \in TokenInputs :
         /\ refresh_tokens' = DeleteToken(refresh_tokens, token)
         /\ revoked' = Append(revoked, token)
         /\ Reply(p, Response(nreq + 1, "logout", 200, "", [refresh_token |-> token], NoArg))
    /\ nreq' = nreq + 1
    /\ UNCHANGED <<users, now, issued, nextTok, nextUid, nticks, minted, failedSince>>

----------------------------------------------------------------------------
(* Protected requests: the extractor runs first, the handler only on a grant *)

\* the extractor a protected route names in its signature
Extractor(class, bearer, dbOk) ==
    IF class = "AdminUser" THEN AdminUser_from_request_parts(bearer, dbOk)
    ELSE AuthUser_from_request_parts(bearer, dbOk)

\* what became of the gate's users lookup: not reached, done, or failed
GateLookup(bearer, dbOk) ==
    IF bearer = {} \/ \E t \in bearer : ~decode_ok(t, now) THEN "skipped"
    ELSE IF dbOk THEN "done" ELSE "failed"

\* A protected request arrives: its extractor decides before the handler runs.
\* The route within the extractor's class and the body are drawn by the handler.
gate(p) ==
    /\ CanStart(p)
    /\ \E class \in {"AuthUser", "AdminUser"}, bearer \in Bearers, dbOk \in BOOLEAN :
         LET outcome == Extractor(class, bearer, dbOk) IN
         IF outcome = "Granted"
         THEN /\ procs' = [procs EXCEPT ![p] =
                             [pc |-> class, kind |-> class, rid |-> nreq + 1,
                              auth |-> AuthUserOf(bearer)]]
              /\ resp' = NoResponse
         ELSE Reply(p, Response(nreq + 1, class, AuthErrorStatus(outcome),
                                AuthErrorMessage(outcome),
                                [bearer |-> bearer, lookup |-> GateLookup(bearer, dbOk)],
                                [auth_error |-> outcome]))
    /\ nreq' = nreq + 1
    /\ UNCHANGED <<revoked, users, refresh_tokens, now, issued, nextTok, nextUid, nticks,
                   minted, failedSince>>

\* GET /api/me, users.rs 717-734
get_me(p) ==
    /\ procs[p].pc = "AuthUser"
    /\ LET r == procs[p]
           found == UsersById(r.auth.id)
       IN  IF found = {}
           THEN Reply(p, Response(r.rid, "get_me", 401, "User not found",
                                  [auth |-> r.auth], NoArg))
           ELSE Reply(p, Response(r.rid, "get_me", 200, "", [auth |-> r.auth],
                                  [user |-> UserResponse(r.auth.id, users[r.auth.id])]))
    /\ UNCHANGED <<revoked, users, refresh_tokens, now, issued, nextTok, nextUid, nreq, nticks,
                   minted, failedSince>>

\* GET /api/users, users.rs 318-333
list_users(p) ==
    /\ procs[p].pc = "AdminUser"
    /\ Reply(p, Response(procs[p].rid, "list_users", 200, "", [auth |-> procs[p].auth],
                         [users |-> {UserResponse(i, users[i]) : i \in DOMAIN users}]))
    /\ UNCHANGED <<revoked, users, refresh_tokens, now, issued, nextTok, nextUid, nreq, nticks,
                   minted, failedSince>>

\* POST /api/users, users.rs 139-195
create_user(p) ==
    /\ procs[p].pc = "AdminUser"
    /\ \E name \in UsernameInputs, password \in GeneratedPasswords, salt \in Salts :
         LET r == procs[p]
             username == to_lowercase(name)
             arg == [auth |-> r.auth, username |-> name]
             row == NewUserRow(username, hash_password(password, salt), "user", TRUE)
         IN  IF UniqueViolation(users, username)
             THEN /\ Reply(p, Response(r.rid, "create_user", 409, "Username already exists",
                                       arg, NoArg))
                  /\ UNCHANGED <<users, nextUid, failedSince>>
             ELSE /\ nextUid <= MaxUsers
                  /\ users' = users @@ (nextUid :> row)
                  /\ failedSince' = failedSince @@ (nextUid :> 0)
                  /\ nextUid' = nextUid + 1
                  /\ Reply(p, Response(r.rid, "create_user", 201, "User created successfully",
                                       arg, [user |-> UserResponse(nextUid, row),
                                             password |-> password]))
    /\ UNCHANGED <<revoked, refresh_tokens, now, issued, nextTok, nreq, nticks, minted>>

\* faulty variant: the guard never trips
IsSelf_Never(user_id, admin) == FALSE

\* the self-action guard of update_role (355) and delete_user (568)
IsSelf(user_id, admin) == user_id = admin.id

\* the self-action guard of update_status (396)
IsSelfDisable(user_id, admin, is_disabled) == user_id = admin.id /\ is_disabled

\* PUT /api/users/{id}/role, users.rs 349-374
update_role(p) ==
    /\ procs[p].pc = "AdminUser"
    /\ \E user_id \in PathIds, role \in RoleInputs :
         LET r == procs[p]
             arg == [auth |-> r.auth, user_id |-> user_id, role |-> role]
         IN  IF IsSelf(user_id, r.auth)
             THEN /\ Reply(p, Response(r.rid, "update_role", 403,
                                       "Cannot change your own role", arg, NoArg))
                  /\ users' = users
             ELSE IF user_id \notin DOMAIN users
             THEN /\ Reply(p, Response(r.rid, "update_role", 404, "User not found", arg, NoArg))
                  /\ users' = users
             ELSE /\ users' = [users EXCEPT ![user_id].role = role]
                  /\ Reply(p, Response(r.rid, "update_role", 200, "Role updated", arg, NoArg))
    /\ UNCHANGED <<revoked, refresh_tokens, now, issued, nextTok, nextUid, nreq, nticks, minted,
                   failedSince>>

\* PUT /api/users/{id}/status, users.rs 390-415
update_status(p) ==
    /\ procs[p].pc = "AdminUser"
    /\ \E user_id \in PathIds, is_disabled \in BOOLEAN :
         LET r == procs[p]
             arg == [auth |-> r.auth, user_id |-> user_id, is_disabled |-> is_disabled]
         IN  IF IsSelfDisable(user_id, r.auth, is_disabled)
             THEN /\ Reply(p, Response(r.rid, "update_status", 403,
                                       "Cannot disable your own account", arg, NoArg))
                  /\ users' = users
             ELSE IF user_id \notin DOMAIN users
             THEN /\ Reply(p, Response(r.rid, "update_status", 404, "User not found", arg, NoArg))
                  /\ users' = users
             ELSE /\ users' = [users EXCEPT ![user_id].is_disabled = is_disabled]
                  /\ Reply(p, Response(r.rid, "update_status", 200, "Status updated", arg, NoArg))
    /\ UNCHANGED <<revoked, refresh_tokens, now, issued, nextTok, nextUid, nreq, nticks, minted,
                   failedSince>>

\* faulty variant: the reset leaves last_login_at alone
ResetRow_KeepsLastLogin(row, password_hash) ==
    [row EXCEPT !.password_hash = password_hash, !.failed_login_attempts = 0,
                !.force_password_change = TRUE]

\* UPDATE users SET password_hash = ?, failed_login_attempts = 0, last_login_at = NULL,
\* force_password_change = 1 WHERE id = ?   (users.rs 456-462)
ResetRow(row, password_hash) ==
    [row EXCEPT !.password_hash = password_hash, !.failed_login_attempts = 0,
                !.last_login_at = NoTime, !.force_password_change = TRUE]

\* AdminResetPasswordRequest.new_password: absent, or a password the admin chose
ResetPasswordInputs == {{}, {"pw1"}}

\* faulty variant: a reset also deletes the refresh tokens of the user
admin_reset_password_RevokesSessions(p) ==
    /\ procs[p].pc = "AdminUser"
    /\ \E user_id \in PathIds, new_password \in ResetPasswordInputs,
          generated \in GeneratedPasswords, salt \in Salts :
         LET r == procs[p]
             arg == [auth |-> r.auth, user_id |-> user_id, new_password |-> new_password]
             plain == IF new_password = {} THEN generated
                      ELSE CHOOSE pw \in new_password : TRUE
             generated_password == IF new_password = {} THEN generated ELSE NoPassword
         IN  IF user_id \notin DOMAIN users
             THEN /\ Reply(p, Response(r.rid, "admin_reset_password", 404, "User not found",
                                       arg, NoArg))
                  /\ UNCHANGED <<users, failedSince, refresh_tokens>>
             ELSE /\ users' = [users EXCEPT ![user_id] =
                                 ResetRow(@, hash_password(plain, salt))]
                  /\ failedSince' = [failedSince EXCEPT ![user_id] = 0]
                  /\ refresh_tokens' = CascadeDelete(refresh_tokens, user_id)
                  /\ Reply(p, Response(r.rid, "admin_reset_password", 200,
                                       "Password reset successfully. User must change it on next login.",
                                       arg, [password |-> generated_password]))
    /\ UNCHANGED <<revoked, now, issued, nextTok, nextUid, nreq, nticks, minted>>

\* POST /api/users/{id}/reset-password, users.rs 432-482
admin_reset_password(p) ==
    /\ procs[p].pc = "AdminUser"
    /\ \E user_id \in PathIds, new_password \in ResetPasswordInputs,
          generated \in GeneratedPasswords, salt \in Salts :
         LET r == procs[p]
             arg == [auth |-> r.auth, user_id |-> user_id, new_password |-> new_password]
             plain == IF new_password = {} THEN generated
                      ELSE CHOOSE pw \in new_password : TRUE
             generated_password == IF new_password = {} THEN generated ELSE NoPassword
         IN  IF user_id \notin DOMAIN users
             THEN /\ Reply(p, Response(r.rid, "admin_reset_password", 404, "User not found",
                                       arg, NoArg))
                  /\ UNCHANGED <<users, failedSince>>
             ELSE /\ users' = [users EXCEPT ![user_id] =
                                 ResetRow(@, hash_password(plain, salt))]
                  /\ failedSince' = [failedSince EXCEPT ![user_id] = 0]
                  /\ Reply(p, Response(r.rid, "admin_reset_password", 200,
                                       "Password reset successfully. User must change it on next login.",
                                       arg, [password |-> generated_password]))
    /\ UNCHANGED <<revoked, refresh_tokens, now, issued, nextTok, nextUid, nreq, nticks, minted>>

\* faulty variant: any old password is accepted
OldPasswordOk_Always(old_password, password_hash) == TRUE

\* users.rs 512: the old password must verify against the stored digest
OldPasswordOk(old_password, password_hash) == verify_password(old_password, password_hash)

\* POST /api/change-password, users.rs 501-514: fetch the digest, verify the old password
change_password(p) ==
    /\ procs[p].pc = "AuthUser"
    /\ \E old_password \in Passwords :
         LET r == procs[p]
             arg == [auth |-> r.auth, old_password |-> old_password]
         IN  IF UsersById(r.auth.id) = {}
             THEN Reply(p, Response(r.rid, "change_password", 401, "User not found", arg, NoArg))
             ELSE IF ~OldPasswordOk(old_password, users[r.auth.id].password_hash)
             THEN Reply(p, Response(r.rid, "change_password", 401,
                                    "Invalid current password", arg, NoArg))
             ELSE /\ procs' = [procs EXCEPT ![p] =
                                 [pc |-> "change_password_update", kind |-> "change_password",
                                  rid |-> r.rid, auth |-> r.auth, arg |-> arg]]
                  /\ resp' = NoResponse
    /\ UNCHANGED <<revoked, users, refresh_tokens, now, issued, nextTok, nextUid, nreq, nticks,
                   minted, failedSince>>

\* faulty variant: the self-service change also clears the failed-attempt counter
ChangeRow_ClearsCounter(row, password_hash) ==
    [row EXCEPT !.password_hash = password_hash, !.force_password_change = FALSE,
                !.failed_login_attempts = 0]

\* UPDATE users SET password_hash = ?, force_password_change = 0 WHERE id = ?  (524-531)
ChangeRow(row, password_hash) ==
    [row EXCEPT !.password_hash = password_hash, !.force_password_change = FALSE]

\* users.rs 516-547: hash the new password, store it, answer 200
change_password_update(p) ==
    /\ procs[p].pc = "change_password_update"
    /\ \E new_password \in Passwords, salt \in Salts :
         LET r == procs[p] IN
         /\ users' = IF r.auth.id \in DOMAIN users
                     THEN [users EXCEPT ![r.auth.id] =
                             ChangeRow(@, hash_password(new_password, salt))]
                     ELSE users
         /\ Reply(p, Response(r.rid, "change_password", 200, "Password changed successfully",
                              [auth |-> r.auth, old_password |-> r.arg.old_password,
                               new_password |-> new_password], NoArg))
    /\ UNCHANGED <<revoked, refresh_tokens, now, issued, nextTok, nextUid, nreq, nticks, minted,
                   failedSince>>

\* DELETE FROM users WHERE id = ?
DeleteUserRow(table, id) == [i \in DOMAIN table \ {id} |-> table[i]]

\* DELETE /api/users/{id}, users.rs 563-593
delete_user(p) ==
    /\ procs[p].pc = "AdminUser"
    /\ \E user_id \in PathIds :
         LET r == procs[p]
             arg == [auth |-> r.auth, user_id |-> user_id]
         IN  IF IsSelf(user_id, r.auth)
             THEN /\ Reply(p, Response(r.rid, "delete_user", 403,
                                       "Cannot delete your own account", arg, NoArg))
                  /\ UNCHANGED <<users, refresh_tokens, failedSince>>
             ELSE IF user_id \notin DOMAIN users
             THEN /\ Reply(p, Response(r.rid, "delete_user", 404, "User not found", arg, NoArg))
                  /\ UNCHANGED <<users, refresh_tokens, failedSince>>
             ELSE /\ users' = DeleteUserRow(users, user_id)
                  /\ refresh_tokens' = CascadeDelete(refresh_tokens, user_id)
                  /\ failedSince' = [i \in DOMAIN failedSince \ {user_id} |-> failedSince[i]]
                  /\ Reply(p, Response(r.rid, "delete_user", 200, "User deleted successfully",
                                       arg, NoArg))
    /\ UNCHANGED <<revoked, now, issued, nextTok, nextUid, nreq, nticks, minted>>

----------------------------------------------------------------------------
(* Specifications *)

Arrive(p) == login_fetch(p) \/ refresh_lookup(p) \/ logout_user(p) \/ gate(p)

Step(p) ==
    \/ login_verify(p) \/ login_tokens(p)
    \/ refresh_expired(p) \/ refresh_user(p) \/ refresh_delete(p) \/ refresh_insert(p)
    \/ get_me(p) \/ list_users(p) \/ create_user(p)
    \/ update_role(p) \/ update_status(p) \/ admin_reset_password(p)
    \/ change_password(p) \/ change_password_update(p) \/ delete_user(p)

Next == Tick \/ \E p \in Procs : Arrive(p) \/ Step(p)

\* requests run concurrently, interleaved at their database statements
Spec == Init /\ [][Next]_vars

\* no request is in flight
Quiet == \A q \in Procs : procs[q].pc = "idle"

SeqNext == Tick \/ \E p \in Procs : (Quiet /\ Arrive(p)) \/ Step(p)

\* requests run one after the other
SeqSpec == Init /\ [][SeqNext]_vars

\* The database after admin has promoted alice (PUT /api/users/2/role), both have
\* logged in at time 0 and logged out again: two enabled administrators, each still
\* holding an access token with role admin, and an empty refresh ledger.
TwoAdminsInit ==
    /\ users = (1 :> [NewUserRow("admin", hash_password("pw1", 1), "admin", TRUE)
                        EXCEPT !.last_login_at = 0])
            @@ (2 :> [NewUserRow("alice", hash_password("pw1", 1), "admin", TRUE)
                        EXCEPT !.last_login_at = 0])
    /\ refresh_tokens = {}
    /\ now = 0
    /\ issued = {create_jwt(1, "admin", "admin", AccessTtl, 0),
                 create_jwt(2, "alice", "admin", AccessTtl, 0)}
    /\ nextTok = 1
    /\ nextUid = 3
    /\ procs = [p \in Procs |-> Idle]
    /\ resp = NoResponse
    /\ nreq = 0
    /\ nticks = 0
    /\ minted = {}
    /\ failedSince = (1 :> 0) @@ (2 :> 0)
    /\ revoked = <<>>

\* concurrent requests against a database with two administrators
TwoAdminsSpec == TwoAdminsInit /\ [][Next]_vars

----------------------------------------------------------------------------
(* Properties *)

\* the slot whose request is answered by this step, for a request of several steps
Answers(p) == procs[p].pc # "idle" /\ resp'.rid = procs[p].rid

\* the refresh tokens redeemed by a refresh that answered 200
Redeemed == {m.from : m \in minted}

\* C1: of the refresh requests that present one and the same refresh token, also
\* concurrently, at most one is answered with a new pair: no token is redeemed twice.
C1_RedeemedAtMostOnce ==
    \A a, b \in minted : a.from = b.from => a.token = b.token

\* C2: while user U is disabled, a protected request carrying a correctly signed,
\* unexpired access token of U never gets a grant (its handler does not run), and the
\* gate, once its lookup of U is done, answers AccountDisabled, 403.
C2_DisabledLosesAccess ==
    [][\A t \in issued :
         (t.uid \in DOMAIN users /\ users[t.uid].is_disabled /\ decode_ok(t, now)) =>
           /\ \A p \in Procs :
                (procs[p].pc = "idle" /\ procs'[p].pc \in {"AuthUser", "AdminUser"})
                  => procs'[p].auth.id # t.uid
           /\ (resp'.kind \in {"AuthUser", "AdminUser"} /\ resp'.arg.bearer = {t}
                 /\ resp'.arg.lookup = "done")
                => (resp'.out.auth_error = "AccountDisabled" /\ resp'.status = 403)
      ]_vars

\* C2 witness: alice's access token from before she was disabled, still unexpired, is
\* answered AccountDisabled
C2_Witness ==
    /\ resp.kind = "AuthUser"
    /\ resp.out.auth_error = "AccountDisabled"
    /\ resp.arg.bearer = {create_jwt(2, "alice", "user", AccessTtl, 0)}
    /\ decode_ok(create_jwt(2, "alice", "user", AccessTtl, 0), now)
    /\ users[2].is_disabled

\* C3: in a sequential run a refresh request that presents a token already redeemed
\* by an earlier refresh is answered 401 "Invalid refresh token" and creates no token.
C3_RedeemedOnceSequential ==
    [][(resp'.kind = "refresh" /\ resp'.arg.refresh_token \in Redeemed) =>
         /\ resp'.status = 401
         /\ resp'.error = "Invalid refresh token"
         /\ refresh_tokens' = refresh_tokens
         /\ issued' = issued
         /\ nextTok' = nextTok
         /\ minted' = minted
      ]_vars

\* C3 witness: the second redemption of a token has just been refused
C3_Witness ==
    /\ resp.kind = "refresh"
    /\ resp.status = 401
    /\ resp.arg.refresh_token \in Redeemed

\* C4: a login for an account that is disabled is answered 403 "Account disabled" in
\* its first step, never reaches the password check, and changes no table, counter,
\* timestamp or token.
C4_DisabledLoginRejected ==
    [][\A name \in UsernameInputs :
         LET found == UsersByName(to_lowercase(name)) IN
         (found # {} /\ \A i \in found : users[i].is_disabled) =>
           /\ \A p \in Procs :
                (procs[p].pc = "idle" /\ procs'[p].pc = "login_verify")
                  => procs'[p].arg.username # name
           /\ (resp'.kind = "login" /\ resp'.rid = nreq + 1 /\ resp'.arg.username = name)
                => /\ resp'.status = 403
                   /\ resp'.error = "Account disabled"
                   /\ resp'.out = NoArg
                   /\ UNCHANGED <<users, refresh_tokens, issued, nextTok>>
      ]_vars

\* C4 witness: a login has been refused because the account is disabled
C4_Witness ==
    /\ resp.kind = "login"
    /\ resp.status = 403
    /\ \E i \in UsersByName(to_lowercase(resp.arg.username)) : users[i].is_disabled

\* C5: failed_login_attempts equals the number of failed password checks since the last
\* successful login or admin reset; a failed check adds exactly 1 and changes nothing
\* else, a successful one sets the counter to 0 and last_login_at to the current time.
C5_CounterCountsFailures ==
    /\ [](\A i \in DOMAIN users : users[i].failed_login_attempts = failedSince[i])
    /\ [][\A p \in Procs :
            procs[p].pc = "login_verify" /\ procs[p].id \in DOMAIN users =>
              LET id == procs[p].id IN
              /\ (Answers(p) /\ resp'.status = 401) =>
                   users' = [users EXCEPT ![id].failed_login_attempts = @ + 1]
              /\ procs'[p].pc = "login_tokens" =>
                   users' = [users EXCEPT ![id].failed_login_attempts = 0,
                                          ![id].last_login_at = now]
         ]_vars

\* C5 witness: two failed password checks in a row have been counted
C5_Witness ==
    \E i \in DOMAIN users : ~users[i].is_disabled /\ users[i].failed_login_attempts = 2

C7_ChangePasswordFrame ==
    [][(resp'.kind = "change_password" /\ resp'.status = 200) =>
         LET id == resp'.arg.auth.id IN
         /\ refresh_tokens' = refresh_tokens
         /\ issued' = issued
         /\ IF id \in DOMAIN users
            THEN \E salt \in Salts :
                   users' = [users EXCEPT
                               ![id].password_hash =
                                   hash_password(resp'.arg.new_password, salt),
                               ![id].force_password_change = FALSE]
            ELSE users' = users
      ]_vars

\* C7 witness: alice, with a failed login on her counter, has changed her password
C7_Witness ==
    /\ resp.kind = "change_password"
    /\ resp.status = 200
    /\ resp.arg.auth.id \in DOMAIN users
    /\ users[resp.arg.auth.id].failed_login_attempts > 0
    /\ ~users[resp.arg.auth.id].force_password_change
    /\ verify_password(resp.arg.new_password, users[resp.arg.auth.id].password_hash)

\* C8: change_password goes on to its UPDATE only with an old_password that verifies
\* against the stored digest; otherwise it is answered 401, and neither the check nor
\* the refusal changes any state.
C8_WrongOldPasswordRejected ==
    [][/\ \A p \in Procs :
            (procs[p].pc = "AuthUser" /\ procs'[p].pc = "change_password_update") =>
              /\ procs[p].auth.id \in DOMAIN users
              /\ verify_password(procs'[p].arg.old_password,
                                 users[procs[p].auth.id].password_hash)
              /\ UNCHANGED <<users, refresh_tokens, issued, nextTok>>
       /\ (resp'.kind = "change_password" /\ resp'.status = 401)
            => UNCHANGED <<users, refresh_tokens, issued, nextTok>>
       /\ (resp'.kind = "change_password" /\ resp'.status = 200)
            => \E p \in Procs : procs[p].pc = "change_password_update" /\ Answers(p)
      ]_vars

\* C8 witness: a change_password whose old_password does not verify has been refused
C8_Witness ==
    /\ resp.kind = "change_password"
    /\ resp.status = 401
    /\ resp.arg.auth.id \in DOMAIN users
    /\ ~verify_password(resp.arg.old_password, users[resp.arg.auth.id].password_hash)

\* C9: admin_reset_password, which takes no old password, on an existing user replaces
\* the digest, sets failed_login_attempts = 0, last_login_at = null and
\* force_password_change = true and leaves is_disabled, role, the other rows and the
\* ledger alone; on a missing id it is answered 404 and changes nothing.
C9_AdminReset ==
    [][resp'.kind = "admin_reset_password" =>
         LET id == resp'.arg.user_id
             plain == IF resp'.arg.new_password = {} THEN resp'.out.password
                      ELSE CHOOSE pw \in resp'.arg.new_password : TRUE
         IN  /\ refresh_tokens' = refresh_tokens
             /\ IF id \in DOMAIN users
                THEN /\ resp'.status = 200
                     /\ \E salt \in Salts :
                          users' = [users EXCEPT
                                      ![id].password_hash = hash_password(plain, salt),
                                      ![id].failed_login_attempts = 0,
                                      ![id].last_login_at = NoTime,
                                      ![id].force_password_change = TRUE]
                ELSE /\ resp'.status = 404
                     /\ users' = users
      ]_vars

\* C9 witness: a reset without a password in the request has returned a generated one
\* and the user's last_login_at, set before, is null
C9_Witness ==
    /\ resp.kind = "admin_reset_password"
    /\ resp.status = 200
    /\ resp.arg.new_password = {}
    /\ resp.out.password \in GeneratedPasswords
    /\ users[resp.arg.user_id].last_login_at = NoTime
    /\ users[resp.arg.user_id].force_password_change

\* C10: update_role, delete_user and update_status with is_disabled = true, called
\* with the caller's own id in the path, are answered 403 and leave the users table
\* and the refresh-token ledger unchanged.
C10_SelfActionGuard ==
    [][(\/ resp'.kind \in {"update_role", "delete_user"}
             /\ resp'.arg.user_id = resp'.arg.auth.id
        \/ resp'.kind = "update_status"
             /\ resp'.arg.user_id = resp'.arg.auth.id /\ resp'.arg.is_disabled)
         => /\ resp'.status = 403
            /\ users' = users
            /\ refresh_tokens' = refresh_tokens
      ]_vars

\* C10 witness: the administrator's request to delete the own account has been
\* refused and the account is present, enabled and admin
C10_Witness ==
    /\ resp.kind = "delete_user"
    /\ resp.status = 403
    /\ resp.arg.user_id = resp.arg.auth.id
    /\ resp.arg.user_id \in DOMAIN users
    /\ ~users[resp.arg.user_id].is_disabled
    /\ users[resp.arg.user_id].role = "admin"

\* the handlers behind the admin extractor
AdminHandlers ==
    {"list_users", "create_user", "update_role", "update_status",
     "admin_reset_password", "delete_user"}

\* C11: the admin gate grants exactly when the base gate grants and the token's role
\* is admin; where the base gate grants a non-admin it answers Forbidden, 403 "Access
\* denied", which no base outcome shares; where a base check fails it answers that
\* base outcome, never Forbidden; and an admin-only handler runs only for a request
\* the admin gate granted.
C11_AdminGate ==
    /\ [](\A e \in {"MissingCredentials", "InvalidToken", "AccountDisabled",
                     "DatabaseError"} :
            <<AuthErrorStatus(e), AuthErrorMessage(e)>> #
              <<AuthErrorStatus("Forbidden"), AuthErrorMessage("Forbidden")>>)
    /\ [][/\ resp'.kind = "AdminUser" =>
              LET b == resp'.arg.bearer
                  base == AuthUser_from_request_parts(b, resp'.arg.lookup # "failed")
              IN  /\ resp'.status = AuthErrorStatus(resp'.out.auth_error)
                  /\ IF base = "Granted"
                     THEN /\ resp'.out.auth_error = "Forbidden"
                          /\ resp'.status = 403
                          /\ \A t \in b : t.role # "admin"
                     ELSE /\ resp'.out.auth_error = base
                          /\ base # "Forbidden"
          /\ \A p \in Procs :
               (procs[p].pc = "idle" /\ procs'[p].pc = "AdminUser") =>
                 /\ procs'[p].auth.role = "admin"
                 /\ \E t \in issued :
                      /\ AuthUserOf({t}) = procs'[p].auth
                      /\ AuthUser_from_request_parts({t}, TRUE) = "Granted"
          /\ resp'.kind \in AdminHandlers =>
               \E p \in Procs : procs[p].pc = "AdminUser" /\ Answers(p)
         ]_vars

\* C11 witness: alice, enabled and not an admin, has been answered Forbidden by the
\* admin gate with a token the base gate grants
C11_Witness ==
    /\ resp.kind = "AdminUser"
    /\ resp.out.auth_error = "Forbidden"
    /\ resp.status = 403
    /\ \A t \in resp.arg.bearer : AuthUser_from_request_parts({t}, TRUE) = "Granted"

\* a gate response whose users lookup ran and found no row: the account was deleted
DeletedAccountRejected ==
    /\ resp.kind \in {"AuthUser", "AdminUser"}
    /\ resp.arg.lookup = "done"
    /\ \E t \in resp.arg.bearer : t.uid \notin DOMAIN users

\* C12 as stated: the gate answers a deleted account with a taxonomy entry of its own,
\* different from the entries for a missing token, an invalid token and a disabled
\* account.
C12_DistinctEntries ==
    DeletedAccountRejected =>
      resp.out.auth_error \notin
        {AuthUser_from_request_parts({}, TRUE),
         AuthUser_from_request_parts({ForgedToken}, TRUE),
         "AccountDisabled"}

\* C12 amended: the gate answers a missing token with MissingCredentials (401), a token
\* that does not validate with InvalidToken (401), a disabled account with
\* AccountDisabled (403) and a deleted account with InvalidToken (401), the entry of
\* an invalid token; all of them are 401 or 403.
C12_GateTaxonomy ==
    (resp.kind \in {"AuthUser", "AdminUser"} /\ resp.arg.lookup # "failed") =>
      LET b == resp.arg.bearer
          e == resp.out.auth_error
      IN  /\ resp.status = AuthErrorStatus(e)
          /\ resp.error = AuthErrorMessage(e)
          /\ b = {} => (e = "MissingCredentials" /\ resp.status = 401)
          /\ (b # {} /\ resp.arg.lookup = "skipped") =>
                (e = "InvalidToken" /\ resp.status = 401)
          /\ (resp.arg.lookup = "done" /\ \E t \in b : t.uid \notin DOMAIN users) =>
                (e = "InvalidToken" /\ resp.status = 401)
          /\ (resp.arg.lookup = "done" /\ \E t \in b :
                   t.uid \in DOMAIN users /\ users[t.uid].is_disabled) =>
                (e = "AccountDisabled" /\ resp.status = 403)
          /\ e # "Forbidden" => resp.status \in {401, 403}

\* C12 witness: a correctly signed, unexpired token of a deleted account has been
\* answered InvalidToken, the entry a forged token gets
C12_Witness ==
    /\ DeletedAccountRejected
    /\ \A t \in resp.arg.bearer : decode_ok(t, now)
    /\ resp.out.auth_error = "InvalidToken"
    /\ AuthUser_from_request_parts({ForgedToken}, TRUE) = "InvalidToken"

\* C13 as stated: an access token passes validation at every time before its expiry
\* (issue time + ttl) and is rejected as InvalidToken at every time from its expiry on.
C13_ExpiresAtTtl ==
    \A t \in issued :
      /\ now < t.exp => decode_ok(t, now)
      /\ now >= t.exp => AuthUser_from_request_parts({t}, TRUE) = "InvalidToken"

\* C14: a refresh with a token that is not in the ledger is answered 401 at once and
\* changes nothing; a refresh that finds its token with expires_at earlier than the
\* current time goes on only to delete that row and answer 401, issuing nothing; a
\* refresh is answered 200 only if its token had not expired when it was looked up,
\* so a request made after the expiry is never redeemed.
C14_RefreshFailures ==
    /\ [][/\ \A p \in Procs :
               (procs[p].pc = "idle" /\ procs'[p].pc # "idle"
                  /\ procs'[p].kind = "refresh") =>
                 /\ procs'[p].token_record \in refresh_tokens
                 /\ procs'[p].token_record.token_hash = procs'[p].arg.refresh_token
                 /\ (procs'[p].pc = "refresh_expired")
                      <=> (procs'[p].token_record.expires_at < now)
          /\ (resp'.kind = "refresh" /\ resp'.rid = nreq + 1) =>
               /\ TokensByHash(resp'.arg.refresh_token) = {}
               /\ resp'.status = 401
               /\ resp'.error = "Invalid refresh token"
               /\ UNCHANGED <<users, refresh_tokens, issued, nextTok, minted>>
          /\ \A p \in Procs :
               (procs[p].pc = "refresh_expired" /\ procs'[p] # procs[p]) =>
                 /\ resp'.rid = procs[p].rid
                 /\ resp'.status = 401
                 /\ resp'.error = "Refresh token expired"
                 /\ refresh_tokens' =
                      {r \in refresh_tokens :
                         r.token_hash # procs[p].arg.refresh_token}
                 /\ UNCHANGED <<users, issued, nextTok, minted>>
          /\ (resp'.kind = "refresh" /\ resp'.status = 200) =>
               \E p \in Procs :
                 /\ procs[p].pc = "refresh_insert" /\ Answers(p)
                 /\ procs[p].token_record.expires_at >= procs[p].now
         ]_vars
    /\ [](\A p \in Procs :
            procs[p].pc \in {"refresh_user", "refresh_delete", "refresh_insert"} =>
              procs[p].token_record.expires_at >= procs[p].now)

\* C14 witness: a refresh made after the expiry of a token of the ledger has been
\* answered 401 "Refresh token expired" and the token's row is gone
C14_Witness ==
    /\ resp.kind = "refresh"
    /\ resp.status = 401
    /\ resp.error = "Refresh token expired"
    /\ resp.arg.refresh_token \in 1..2
    /\ now > RefreshShort
    /\ TokensByHash(resp.arg.refresh_token) = {}

\* the ledger rows owned by a user
RowsOf(table, uid) == {r \in table : r.user_id = uid}

\* C15: in a sequential run every refresh answered 200 rotates: its delete step
\* removes the presented token's row and nothing else, its insert step adds exactly
\* one row, with a token value never handed out before and the same user_id; after
\* it the presented token is absent and the user owns as many rows as before.
C15_RefreshRotates ==
    [][\A p \in Procs :
         /\ (procs[p].pc = "refresh_delete" /\ procs'[p].pc = "refresh_insert") =>
              /\ procs[p].token_record \in refresh_tokens
              /\ refresh_tokens' = refresh_tokens \ {procs[p].token_record}
         /\ (procs[p].pc = "refresh_insert" /\ Answers(p)) =>
              LET old == procs[p].token_record
                  added == refresh_tokens' \ refresh_tokens
                  before == refresh_tokens \cup {old}
              IN  /\ resp'.status = 200
                  /\ old \notin refresh_tokens
                  /\ refresh_tokens \subseteq refresh_tokens'
                  /\ Cardinality(added) = 1
                  /\ \A r \in added :
                       /\ r.user_id = old.user_id
                       /\ r.token_hash = resp'.out.refresh_token
                       /\ r.token_hash \notin TokenInputs
                  /\ \A r \in refresh_tokens' : r.token_hash # old.token_hash
                  /\ Cardinality(RowsOf(refresh_tokens', old.user_id)) =
                       Cardinality(RowsOf(before, old.user_id))
      ]_vars

\* C15 witness: a refresh has been answered 200; the token it presented is gone and
\* the token it returned is in the ledger
C15_Witness ==
    /\ resp.kind = "refresh"
    /\ resp.status = 200
    /\ TokensByHash(resp.arg.refresh_token) = {}
    /\ TokensByHash(resp.out.refresh_token) # {}
    /\ Cardinality(refresh_tokens) = 2

\* C16: logout is always answered 200; it removes the row of the presented token and
\* no other ledger row, changes no user row and issues nothing; with a token that
\* is not in the ledger (unknown, or logged out before) it leaves the state as it
\* was, and after it the token is absent, so repeating it changes nothing.
C16_LogoutIdempotent ==
    [][resp'.kind = "logout" =>
         LET token == resp'.arg.refresh_token IN
         /\ resp'.status = 200
         /\ refresh_tokens' = {r \in refresh_tokens : r.token_hash # token}
         /\ TokensByHash(token) = {} => refresh_tokens' = refresh_tokens
         /\ \A r \in refresh_tokens' : r.token_hash # token
         /\ UNCHANGED <<users, issued, nextTok, nextUid, now, minted>>
      ]_vars

\* C16 witness: the second of two logouts with the same token of the ledger has been
\* answered; only that one row is gone
C16_Witness ==
    /\ resp.kind = "logout"
    /\ resp.status = 200
    /\ resp.rid = 2
    /\ revoked = <<resp.arg.refresh_token, resp.arg.refresh_token>>
    /\ resp.arg.refresh_token \in 1..2
    /\ Cardinality(refresh_tokens) = 1

\* C17: a delete_user answered 200 removes the user's row and every ledger row the
\* user owns and nothing else, so every ledger row always refers to an existing
\* user; a refresh goes past its lookup only with a row whose owner exists and is
\* otherwise answered 401 without any change; and a validly signed, unexpired access
\* token of a deleted user is rejected by the gate as InvalidToken.
C17_DeleteCascades ==
    /\ [](\A r \in refresh_tokens : r.user_id \in DOMAIN users)
    /\ [](\A t \in issued :
            (t.uid \notin DOMAIN users /\ decode_ok(t, now)) =>
              /\ AuthUser_from_request_parts({t}, TRUE) = "InvalidToken"
              /\ AdminUser_from_request_parts({t}, TRUE) = "InvalidToken")
    /\ [][/\ (resp'.kind = "delete_user" /\ resp'.status = 200) =>
               LET U == resp'.arg.user_id IN
               /\ U \in DOMAIN users
               /\ DOMAIN users' = DOMAIN users \ {U}
               /\ \A i \in DOMAIN users' : users'[i] = users[i]
               /\ refresh_tokens' = refresh_tokens \ RowsOf(refresh_tokens, U)
               /\ RowsOf(refresh_tokens', U) = {}
          /\ \A p \in Procs :
               (procs[p].pc = "idle" /\ procs'[p].pc # "idle"
                  /\ procs'[p].kind = "refresh") =>
                 procs'[p].token_record.user_id \in DOMAIN users
          /\ \A p \in Procs :
               (procs[p].pc = "refresh_user" /\ procs'[p] # procs[p]
                  /\ procs[p].token_record.user_id \notin DOMAIN users) =>
                 /\ resp'.rid = procs[p].rid
                 /\ resp'.status = 401
                 /\ UNCHANGED <<users, refresh_tokens, issued, nextTok, minted>>
         ]_vars

\* C17 witness: alice has been deleted; a refresh with the token she held is answered
\* 401, the ledger has no row of hers and her unexpired access token is an
\* InvalidToken for the gate
C17_Witness ==
    /\ 2 \notin DOMAIN users
    /\ resp.kind = "refresh"
    /\ resp.status = 401
    /\ resp.arg.refresh_token = 2
    /\ RowsOf(refresh_tokens, 2) = {}
    /\ decode_ok(create_jwt(2, "alice", "user", AccessTtl, 0), now)
    /\ AuthUser_from_request_parts({create_jwt(2, "alice", "user", AccessTtl, 0)}, TRUE)
         = "InvalidToken"

\* C18: the refresh token a login stores expires 30 days after the login's clock
\* reading when remember_me is true and 1 day after it when remember_me is false or
\* absent; the refresh token a refresh stores expires 30 days after that refresh's
\* clock reading, whatever the expiry of the token it redeemed.
C18_RefreshLifetimes ==
    [][\A p \in Procs :
         LET added == refresh_tokens' \ refresh_tokens IN
         /\ (procs[p].pc = "login_tokens" /\ Answers(p)) =>
              /\ resp'.status = 200
              /\ \A r \in added :
                   /\ r.token_hash = resp'.out.refresh_token
                   /\ r.expires_at =
                        now + (IF resp'.arg.remember_me = {TRUE}
                               THEN 30 * 24 * 3600 ELSE 24 * 3600)
         /\ (procs[p].pc = "refresh_insert" /\ Answers(p)) =>
              /\ resp'.status = 200
              /\ \A r \in added :
                   /\ r.token_hash = resp'.out.refresh_token
                   /\ r.expires_at = procs[p].now + 30 * 24 * 3600
      ]_vars

\* C18 witness: a refresh has redeemed a one-day token and the token it stored
\* expires 30 days from now
C18_Witness ==
    /\ resp.kind = "refresh"
    /\ resp.status = 200
    /\ resp.arg.refresh_token \in 1..2
    /\ \E r \in refresh_tokens :
         /\ r.token_hash = resp.out.refresh_token
         /\ r.expires_at = now + 30 * 24 * 3600
         /\ r.expires_at # now + RefreshShort

\* C19: a create_user answered 201 adds exactly one row, under a new id, with
\* force_password_change = true, is_disabled = false, failed_login_attempts = 0,
\* last_login_at = null and a digest of a generated password, which the response
\* returns; the other rows are unchanged; and a row is added only by a request that
\* the admin gate granted.
C19_CreateUser ==
    [][/\ (resp'.kind = "create_user" /\ resp'.status = 201) =>
            LET id == resp'.out.user.id IN
            /\ id \notin DOMAIN users
            /\ DOMAIN users' = DOMAIN users \cup {id}
            /\ \A i \in DOMAIN users : users'[i] = users[i]
            /\ users'[id].username = to_lowercase(resp'.arg.username)
            /\ users'[id].force_password_change = TRUE
            /\ users'[id].is_disabled = FALSE
            /\ users'[id].failed_login_attempts = 0
            /\ users'[id].last_login_at = NoTime
            /\ resp'.out.password \in GeneratedPasswords
            /\ verify_password(resp'.out.password, users'[id].password_hash)
            /\ resp'.out.user = UserResponse(id, users'[id])
       /\ (DOMAIN users' \ DOMAIN users # {}) =>
            /\ resp'.kind = "create_user" /\ resp'.status = 201
            /\ \E p \in Procs :
                 /\ procs[p].pc = "AdminUser" /\ Answers(p)
                 /\ procs[p].auth.role = "admin"
      ]_vars

\* C19 witness: a user has been created; the row is as the response describes it and
\* the returned password verifies against its digest
C19_Witness ==
    /\ resp.kind = "create_user"
    /\ resp.status = 201
    /\ resp.out.user.id \in DOMAIN users
    /\ users[resp.out.user.id].force_password_change
    /\ ~users[resp.out.user.id].is_disabled
    /\ users[resp.out.user.id].last_login_at = NoTime
    /\ verify_password(resp.out.password, users[resp.out.user.id].password_hash)

\* the lowercase form of each requested name, written out
LowercaseOf == [name \in UsernameInputs |-> IF name = "Alice" THEN "alice" ELSE "bob"]

\* C20: no two user rows have the same username, also with concurrent creations; a
\* create_user whose requested name, lowercased, is the username of an existing row
\* is answered 409 and adds or changes no row; otherwise the row it adds carries the
\* lowercased name.
C20_UsernameUnique ==
    /\ [](\A i, j \in DOMAIN users : users[i].username = users[j].username => i = j)
    /\ [][resp'.kind = "create_user" =>
            LET taken == \E i \in DOMAIN users :
                           users[i].username = LowercaseOf[resp'.arg.username]
            IN  IF taken
                THEN /\ resp'.status = 409
                     /\ UNCHANGED <<users, nextUid, refresh_tokens>>
                ELSE /\ resp'.status = 201
                     /\ users'[resp'.out.user.id].username =
                          LowercaseOf[resp'.arg.username]
         ]_vars

\* C20 witness: the creation of "Alice" has been refused with 409 because alice exists
C20_Witness ==
    /\ resp.kind = "create_user"
    /\ resp.status = 409
    /\ resp.arg.username = "Alice"
    /\ \E i \in DOMAIN users : users[i].username = "alice"
    /\ \A i \in DOMAIN users : users[i].username # "Alice"

\* C21 as stated: every user's role is 'user' or 'admin' in every reachable state.
C21_RoleEnum ==
    \A i \in DOMAIN users : users[i].role \in {"user", "admin"}

\* the user projections carried by the latest response
UserProjections ==
    IF "users" \in DOMAIN resp.out THEN resp.out.users
    ELSE IF "user" \in DOMAIN resp.out THEN {resp.out.user}
    ELSE {}

\* C22: no response carries a password_hash: a response body has only the fields
\* user, users, access_token, refresh_token, password (a plaintext the server
\* generated) or an error; every user projection in it has exactly the fields id,
\* username, role, last_login_at, force_password_change and is_disabled, equal to
\* those of a row projection; and the claims of an access token hold no digest.
C22_NoPasswordHash ==
    /\ DOMAIN resp.out \subseteq
         {"none", "auth_error", "user", "users", "access_token", "refresh_token",
          "password"}
    /\ \A u \in UserProjections :
         DOMAIN u = {"id", "username", "role", "last_login_at",
                     "force_password_change", "is_disabled"}
    /\ "password" \in DOMAIN resp.out =>
         resp.out.password \in GeneratedPasswords \cup {NoPassword}
    /\ "access_token" \in DOMAIN resp.out =>
         DOMAIN resp.out.access_token = {"sub", "uid", "role", "exp", "mac"}
    /\ (resp.kind \in {"login", "create_user", "get_me"} /\ resp.status \in {200, 201})
         => Cardinality(UserProjections) = 1
    /\ (resp.kind = "list_users" /\ resp.status = 200)
         => {u.id : u \in UserProjections} = DOMAIN users

\* C22 witness: the list of users has been sent, one projection per row
C22_Witness ==
    /\ resp.kind = "list_users"
    /\ resp.status = 200
    /\ Cardinality(UserProjections) >= 2
    /\ \A u \in UserProjections : "password_hash" \notin DOMAIN u

\* C23 as stated: a row that an admin reset left behind (force_password_change set,
\* last_login_at null) has its digest replaced and its flag cleared by change_password
\* only if the old password that request verified is the one the row holds now, also
\* when the request verified its old password before the reset committed.
C23_ResetNotOverwritten ==
    [][\A p \in Procs :
         (/\ procs[p].pc = "change_password_update"
          /\ Answers(p)
          /\ procs[p].auth.id \in DOMAIN users
          /\ users[procs[p].auth.id].force_password_change
          /\ users[procs[p].auth.id].last_login_at = NoTime
          /\ users'[procs[p].auth.id] # users[procs[p].auth.id])
           => verify_password(procs[p].arg.old_password,
                              users[procs[p].auth.id].password_hash)
      ]_vars

C25_GateOrder ==
    [][/\ resp'.kind = "AuthUser" =>
            LET b == resp'.arg.bearer
                e == resp'.out.auth_error
            IN  IF b = {} THEN e = "MissingCredentials"
                ELSE \A t \in b :
                       IF ~decode_ok(t, now) THEN e = "InvalidToken"
                       ELSE IF resp'.arg.lookup = "failed" THEN e = "DatabaseError"
                       ELSE IF t.uid \notin DOMAIN users THEN e = "InvalidToken"
                       ELSE users[t.uid].is_disabled /\ e = "AccountDisabled"
       /\ \A p \in Procs :
            (procs[p].pc = "idle" /\ procs'[p].pc = "AuthUser") =>
              \E t \in issued :
                /\ decode_ok(t, now)
                /\ t.uid \in DOMAIN users
                /\ ~users[t.uid].is_disabled
                /\ procs'[p].auth = [id |-> t.uid, username |-> t.sub, role |-> t.role]
      ]_vars

\* C25 witness: a request has passed the base gate with the role of its token's
\* claims, which is no longer the role of the row
C25_Witness ==
    \E p \in Procs :
      /\ procs[p].pc = "AuthUser"
      /\ procs[p].auth.id \in DOMAIN users
      /\ procs[p].auth.role # users[procs[p].auth.id].role

\* C26: starting with at least one enabled administrator, after any sequence of
\* update_role, update_status and delete_user requests that passed the admin gate
\* there is still a user with role admin and is_disabled = false.
C26_EnabledAdminRemains ==
    \E i \in DOMAIN users : users[i].role = "admin" /\ ~users[i].is_disabled

\* C27: the admin gate decides on the role in the token's claims, not on users.role:
\* an admin-only request carrying a token with role admin whose user has since been
\* demoted is never answered Forbidden; while the token validates it is refused
\* only for a failed lookup or a disabled account, and otherwise reaches its
\* handler with role admin.
C27_TokenRoleDecides ==
    [][/\ resp'.kind = "AdminUser" =>
            \A t \in resp'.arg.bearer :
              (t.role = "admin" /\ t.uid \in DOMAIN users /\ users[t.uid].role # "admin") =>
                /\ resp'.out.auth_error # "Forbidden"
                /\ decode_ok(t, now) =>
                     resp'.arg.lookup = "failed" \/ users[t.uid].is_disabled
       /\ \A p \in Procs :
            (procs[p].pc = "idle" /\ procs'[p].pc = "AdminUser") =>
              \E t \in issued : /\ t.role = "admin"
                                /\ decode_ok(t, now)
                                /\ procs'[p].auth = AuthUserOf({t})
      ]_vars

\* C27 witness: alice was demoted by a request that has ended, and her next
\* admin-only request, carrying the token from before, has passed the admin gate
C27_Witness ==
    \E p \in Procs :
      /\ procs[p].pc = "AdminUser"
      /\ procs[p].rid = 2
      /\ procs[p].auth.role = "admin"
      /\ procs[p].auth.id \in DOMAIN users
      /\ users[procs[p].auth.id].role = "user"
      /\ \A q \in Procs \ {p} : procs[q].pc = "idle"
      /\ resp = NoResponse
      /\ nticks = 0

\* C28: refresh redemption never reads is_disabled. A refresh request is never
\* refused while the presented token has an unexpired row whose owner exists and
\* is disabled; when the new pair is minted for a disabled owner the request is
\* answered 200 with a new access token and a new refresh token, the presented
\* token is gone from the ledger and the new one is stored; and every access
\* token of a disabled account that still validates, the new one included, is
\* answered AccountDisabled by the gate for as long as the account is disabled.
C28_RefreshIgnoresDisabled ==
    /\ [][ /\ (resp'.kind = "refresh" /\ resp'.status # 200) =>
                ~\E row \in refresh_tokens :
                    /\ row.token_hash = resp'.arg.refresh_token
                    /\ ~RefreshExpired(row.expires_at, now)
                    /\ row.user_id \in DOMAIN users
                    /\ users[row.user_id].is_disabled
           /\ \A p \in Procs :
                (/\ procs[p].pc = "refresh_insert"
                 /\ Answers(p)
                 /\ procs[p].token_record.user_id \in DOMAIN users
                 /\ users[procs[p].token_record.user_id].is_disabled) =>
                   /\ resp'.status = 200
                   /\ resp'.out.access_token \in issued'
                   /\ resp'.out.access_token.uid = procs[p].token_record.user_id
                   /\ resp'.out.refresh_token # procs[p].arg.refresh_token
                   /\ \A row \in refresh_tokens' :
                        row.token_hash # procs[p].arg.refresh_token
                   /\ \E row \in refresh_tokens' :
                        /\ row.token_hash = resp'.out.refresh_token
                        /\ row.user_id = procs[p].token_record.user_id
                   /\ "AccountDisabled" =
                        AuthUser_from_request_parts({resp'.out.access_token}, TRUE)
           /\ resp'.kind \in {"AuthUser", "AdminUser"} =>
                \A t \in resp'.arg.bearer :
                  (/\ decode_ok(t, now)
                   /\ resp'.arg.lookup = "done"
                   /\ t.uid \in DOMAIN users
                   /\ users[t.uid].is_disabled) =>
                     resp'.out.auth_error = "AccountDisabled"
          ]_vars
    /\ [](\A t \in issued :
            (decode_ok(t, now) /\ t.uid \in DOMAIN users /\ users[t.uid].is_disabled) =>
              \A class \in {"AuthUser", "AdminUser"} :
                Extractor(class, {t}, TRUE) = "AccountDisabled")

\* C28 witness: a refresh of a disabled account's token has been answered 200 with a
\* new pair, the new refresh token is in the ledger, the presented one is not, and
\* the gate answers the new access token with AccountDisabled
C28_Witness ==
    /\ resp.kind = "refresh"
    /\ resp.status = 200
    /\ TokensByHash(resp.arg.refresh_token) = {}
    /\ \E row \in TokensByHash(resp.out.refresh_token) :
         /\ row.user_id \in DOMAIN users
         /\ users[row.user_id].is_disabled
         /\ resp.out.access_token.uid = row.user_id
    /\ decode_ok(resp.out.access_token, now)
    /\ AuthUser_from_request_parts({resp.out.access_token}, TRUE) = "AccountDisabled"

\* C29: login and refresh return a refresh token in a 200 response only if its row
\* was stored in the ledger: when the INSERT fails, no 200 response carrying a
\* token is returned.
C29_TokenOnlyIfStored ==
    [][(resp'.kind \in {"login", "refresh"} /\ resp'.status = 200) =>
         \E row \in refresh_tokens' : row.token_hash = resp'.out.refresh_token
      ]_vars

\* C30: logout revokes the refresh token only. A logout changes neither the users
\* table nor any access token, and leaves the gate's answer to every issued access
\* token as it was; and a request whose access token belongs to a user with no
\* refresh token left in the ledger is refused by the base gate only if the token
\* no longer validates, the lookup fails, or the account is deleted or disabled.
C30_LogoutKeepsAccess ==
    [][/\ resp'.kind = "logout" =>
            /\ resp'.status = 200
            /\ users' = users
            /\ issued' = issued
            /\ \A r \in refresh_tokens \ refresh_tokens' :
                 r.token_hash = resp'.arg.refresh_token
            /\ \A t \in issued : \A class \in {"AuthUser", "AdminUser"} :
                 Extractor(class, {t}, TRUE)' = Extractor(class, {t}, TRUE)
       /\ resp'.kind = "AuthUser" =>
            \A t \in resp'.arg.bearer :
              (RowsOf(refresh_tokens, t.uid) = {} /\ decode_ok(t, now)) =>
                \/ resp'.arg.lookup = "failed"
                \/ t.uid \notin DOMAIN users
                \/ users[t.uid].is_disabled
      ]_vars

\* C30 witness: alice has logged out with her refresh token, no token of hers is
\* left in the ledger, and her next request, carrying the access token of the same
\* login, has passed the base gate
C30_Witness ==
    \E p \in Procs :
      /\ procs[p].pc = "AuthUser"
      /\ procs[p].rid = 2
      /\ procs[p].auth.id = 2
      /\ revoked = <<2>>
      /\ RowsOf(refresh_tokens, 2) = {}
      /\ \A q \in Procs \ {p} : procs[q].pc = "idle"

\* C31: change_password and admin_reset_password leave the refresh-token ledger
\* unchanged: no step of either handler changes refresh_tokens, and a refresh
\* request is refused only if the presented token has no row, its row has expired,
\* or its owner is gone - never because the owner's password was changed or reset.
C31_PasswordKeepsLedger ==
    [][/\ resp'.kind \in {"change_password", "admin_reset_password"} =>
            refresh_tokens' = refresh_tokens
       /\ (\E p \in Procs : procs'[p].pc = "change_password_update"
                              /\ procs[p].pc # "change_password_update") =>
            refresh_tokens' = refresh_tokens
       /\ (resp'.kind = "refresh" /\ resp'.status # 200) =>
            ~\E row \in refresh_tokens :
                /\ row.token_hash = resp'.arg.refresh_token
                /\ ~RefreshExpired(row.expires_at, now)
                /\ row.user_id \in DOMAIN users
      ]_vars

\* C31 witness: alice's password was reset by the administrator, her refresh token
\* from before the reset has been redeemed with 200, and its successor is stored
C31_Witness ==
    /\ resp.kind = "refresh"
    /\ resp.status = 200
    /\ resp.arg.refresh_token = 2
    /\ 2 \in DOMAIN users
    /\ users[2].last_login_at = NoTime
    /\ users[2].force_password_change
    /\ \E row \in TokensByHash(resp.out.refresh_token) : row.user_id = 2

\* C32: failed_login_attempts is read by no decision. A login is refused on arrival
\* only if no row has the name (401) or the row is disabled (403); after that it is
\* refused only if the password does not verify, and otherwise answered 200 -
\* whatever the counter's value; and no step of a login, failed or not, changes
\* is_disabled of any account or removes one.
C32_CounterDecidesNothing ==
    [][/\ (resp'.kind = "login" /\ resp'.rid = nreq + 1) =>
            LET found == UsersByName(to_lowercase(resp'.arg.username)) IN
            \/ resp'.status = 401 /\ found = {}
            \/ resp'.status = 403 /\ \E i \in found : users[i].is_disabled
       /\ \A p \in Procs :
            /\ (procs[p].pc = "login_verify" /\ Answers(p)) =>
                 /\ resp'.status = 401
                 /\ ~verify_password(resp'.arg.password, procs[p].user.password_hash)
            /\ (procs[p].pc = "login_tokens" /\ Answers(p)) =>
                 /\ resp'.status = 200
                 /\ verify_password(resp'.arg.password, procs[p].user.password_hash)
            /\ (procs[p].pc \in {"login_verify", "login_tokens"}
                  /\ procs'[p] # procs[p]) =>
                 /\ DOMAIN users' = DOMAIN users
                 /\ \A i \in DOMAIN users : users'[i].is_disabled = users[i].is_disabled
      ]_vars

\* C32 witness: a login whose row had a failed attempt on record when it was fetched
\* has had its password accepted, on an account that is still enabled
C32_Witness ==
    \E p \in Procs :
      /\ procs[p].pc = "login_tokens"
      /\ procs[p].user.failed_login_attempts >= 1
      /\ procs[p].id \in DOMAIN users
      /\ ~users[procs[p].id].is_disabled
      /\ users[procs[p].id].failed_login_attempts = 0

\* C33: the access token minted by a refresh carries the username and role read
\* from the users table when the refresh fetched the owner, not those of an earlier
\* login: the fetch keeps the row's current username and role, and the token
\* returned is made of the owner's id and exactly these two values.
C33_RefreshReadsLiveRole ==
    [][\A p \in Procs :
         /\ (procs[p].pc = "refresh_user" /\ procs'[p].pc = "refresh_delete") =>
              LET id == procs[p].token_record.user_id IN
              /\ id \in DOMAIN users
              /\ procs'[p].user.username = users[id].username
              /\ procs'[p].user.role = users[id].role
         /\ (procs[p].pc = "refresh_insert" /\ Answers(p)) =>
              /\ resp'.status = 200
              /\ resp'.out.access_token.uid = procs[p].token_record.user_id
              /\ resp'.out.access_token.sub = procs[p].user.username
              /\ resp'.out.access_token.role = procs[p].user.role
              /\ resp'.out.access_token.exp = now + AccessTtl
              /\ decode_ok(resp'.out.access_token, now)
      ]_vars

\* C33 witness: alice logged in as user, was promoted to admin, and the refresh of
\* her token from that login has returned an access token with role admin
C33_Witness ==
    /\ resp.kind = "refresh"
    /\ resp.status = 200
    /\ resp.arg.refresh_token = 2
    /\ resp.out.access_token.uid = 2
    /\ resp.out.access_token.role = "admin"
    /\ create_jwt(2, "alice", "user", AccessTtl, 0) \in issued
    /\ 2 \in DOMAIN users
    /\ users[2].role = "admin"

\* C34: the user projection of a successful login is the row as read before the
\* login's own update. The login keeps the row it fetched on arrival, its success
\* update writes the current time to last_login_at without re-reading the row, and
\* the 200 response projects the fetched row: its last_login_at is the value from
\* before this login (null after an admin reset), not the time this login wrote.
C34_ProjectionBeforeUpdate ==
    [][\A p \in Procs :
         /\ (procs[p].pc = "idle" /\ procs'[p].pc = "login_verify") =>
              procs'[p].user = users[procs'[p].id]
         /\ (procs[p].pc = "login_verify" /\ procs'[p].pc = "login_tokens") =>
              /\ procs'[p].user = procs[p].user
              /\ procs[p].id \in DOMAIN users =>
                   users'[procs[p].id].last_login_at = now
         /\ (procs[p].pc = "login_tokens" /\ Answers(p)) =>
              /\ resp'.status = 200
              /\ resp'.out.user.id = procs[p].id
              /\ resp'.out.user.username = procs[p].user.username
              /\ resp'.out.user.role = procs[p].user.role
              /\ resp'.out.user.last_login_at = procs[p].user.last_login_at
              /\ resp'.out.user.force_password_change = procs[p].user.force_password_change
              /\ resp'.out.user.is_disabled = procs[p].user.is_disabled
      ]_vars

\* C34 witness: a first login, or one after an admin reset, has been answered 200
\* with a null last_login_at in its projection, while the row holds the time the
\* login wrote
C34_Witness ==
    /\ resp.kind = "login"
    /\ resp.status = 200
    /\ resp.out.user.last_login_at = NoTime
    /\ resp.out.user.id \in DOMAIN users
    /\ users[resp.out.user.id].last_login_at = now

====
